---- MODULE Spec2Model ----
(***************************************************************************)
(* Model of the visibility scoring engine (src/utils/scoring.py), of the   *)
(* competitor filter (src/utils/places_api.py) and of the web application  *)
(* around them (src/app.py).  Spec runs one call of calculate_score,       *)
(* SpecFilter one call of _filter_local_competitors, SpecApp the routes    *)
(* of the application with its webhook threads.                            *)
(*                                                                         *)
(* Numbers that the program keeps as floats with one decimal are kept as   *)
(* integers counted in tenths: a rating of 4.3 is 43, a sub-score of 30.1  *)
(* is 301.  `total`, review counts and photo counts are plain integers.    *)
(* A dict is a function whose DOMAIN is the set of keys that are present,  *)
(* so dict.get(key, default) can be modelled by what it does.              *)
(***************************************************************************)
EXTENDS Integers, Sequences, FiniteSets, TLC

\* ------------------------------------------------------------------------
\* Bounds of the model
\* ------------------------------------------------------------------------
\* largest rating fed to the engine, in tenths (5.2; the scale ends at 5.0)
MaxRating == 52
\* largest review count of the subject business
MaxReviewCount == 201
\* largest photo count (the upstream API caps it at 10)
MaxPhotoCount == 11
\* largest number of reviews in the sample returned by the upstream API
MaxReturned == 5
\* largest number of competitors handed to calculate_score
MaxCompetitors == 3
\* largest review count of a competitor
MaxCompReviews == 4
\* largest number of nearby-search candidates handed to the filter
MaxCandidates == 3
\* largest number of competitors asked of the filter
MaxWant == 3
\* largest number of analyze requests served by the web application
MaxRequests == 2
\* largest number of places in a nearby-search response
MaxNearby == 3

\* ------------------------------------------------------------------------
\* Helpers: dict access and Python arithmetic
\* ------------------------------------------------------------------------
\* dict.get(key, default)
Get(d, key, default) == IF key \in DOMAIN d THEN d[key] ELSE default

Min(a, b) == IF a <= b THEN a ELSE b

\* round(num/den, 1) counted in tenths, for num >= 0 and den > 0: the nearest
\* tenth, a tie going to the even one (Python's round)
Round1(num, den) ==
    LET q == (10 * num) \div den
        r == (10 * num) % den
    IN  IF 2 * r < den THEN q
        ELSE IF 2 * r > den THEN q + 1
        ELSE IF q % 2 = 0 THEN q ELSE q + 1

\* int(x) of a float kept in tenths: truncation toward zero
IntOfTenths(t) == IF t >= 0 THEN t \div 10 ELSE -((-t) \div 10)

\* sorted(xs) for a sequence of integers (ascending insertion sort)
RECURSIVE Insert(_, _)
Insert(x, s) ==
    IF s = <<>> THEN <<x>>
    ELSE IF x <= Head(s) THEN <<x>> \o s
    ELSE <<Head(s)>> \o Insert(x, Tail(s))

RECURSIVE Sorted(_)
Sorted(s) == IF s = <<>> THEN <<>> ELSE Insert(Head(s), Sorted(Tail(s)))

\* [f(x) for x in s if p(x)] specialised to the review counts of competitors
\* that are truthy (non-zero)
RECURSIVE TruthyReviewCounts(_)
TruthyReviewCounts(cs) ==
    IF cs = <<>> THEN <<>>
    ELSE IF Head(cs).review_count # 0
         THEN <<Head(cs).review_count>> \o TruthyReviewCounts(Tail(cs))
         ELSE TruthyReviewCounts(Tail(cs))

\* ------------------------------------------------------------------------
\* Sub-scores (all results in tenths of a point)
\* ------------------------------------------------------------------------
\* _rating_score: rating in tenths
RatingScoreUncapped(rating) ==
    IF rating = 0 THEN 0 ELSE Round1(rating * 35, 50)

RatingScore(rating) ==
    IF rating = 0 THEN 0 ELSE Round1(Min(rating, 50) * 35, 50)

\* _reviews_score: the competitor average is accepted and ignored
ReviewsScoreShifted(review_count, competitor_avg) ==
    IF review_count > 200 THEN 300
    ELSE IF review_count > 100 THEN 260
    ELSE IF review_count > 50 THEN 210
    ELSE IF review_count > 30 THEN 170
    ELSE IF review_count > 20 THEN 120
    ELSE IF review_count > 10 THEN 70
    ELSE IF review_count > 1 THEN 30
    ELSE 0

\* the reviews score measured against the competitor benchmark (the scheme
\* of the module docstring), absolute only when there is no benchmark
ReviewsScoreRelative(review_count, competitor_avg) ==
    IF competitor_avg.num = 0
    THEN IF review_count >= 200 THEN 300
         ELSE IF review_count >= 100 THEN 260
         ELSE IF review_count >= 50 THEN 210
         ELSE IF review_count >= 30 THEN 170
         ELSE IF review_count >= 20 THEN 120
         ELSE IF review_count >= 10 THEN 70
         ELSE IF review_count >= 1 THEN 30
         ELSE 0
    ELSE Round1(Min(review_count * competitor_avg.den, competitor_avg.num) * 30,
                competitor_avg.num)

ReviewsScore(review_count, competitor_avg) ==
    IF review_count >= 200 THEN 300
    ELSE IF review_count >= 100 THEN 260
    ELSE IF review_count >= 50 THEN 210
    ELSE IF review_count >= 30 THEN 170
    ELSE IF review_count >= 20 THEN 120
    ELSE IF review_count >= 10 THEN 70
    ELSE IF review_count >= 1 THEN 30
    ELSE 0

\* _photos_score without the cap at 10 photos
PhotosScoreUncapped(photo_count) == Round1(photo_count * 10, 10)

\* _photos_score: round(min(photo_count / 10, 1.0) * 10, 1)
PhotosScore(photo_count) == Round1(Min(photo_count, 10) * 10, 10)

\* _completeness_score: (points, breakdown)
CompletenessScoreDocstring(has_website, has_phone, has_hours, has_specific_categories) ==
    [pts |-> 10 * ((IF has_website THEN 4 ELSE 0) +
                   (IF has_phone THEN 4 ELSE 0) +
                   (IF has_hours THEN 4 ELSE 0) +
                   (IF has_specific_categories THEN 3 ELSE 0)),
     breakdown |-> [has_website |-> has_website,
                    has_phone |-> has_phone,
                    has_hours |-> has_hours,
                    has_specific_categories |-> has_specific_categories]]

CompletenessScore(has_website, has_phone, has_hours, has_specific_categories) ==
    [pts |-> 10 * ((IF has_website THEN 4 ELSE 0) +
                   (IF has_phone THEN 4 ELSE 0) +
                   (IF has_hours THEN 4 ELSE 0) +
                   (IF has_specific_categories THEN 4 ELSE 0)),
     breakdown |-> [has_website |-> has_website,
                    has_phone |-> has_phone,
                    has_hours |-> has_hours,
                    has_specific_categories |-> has_specific_categories]]

\* _description_score: everyone gets the 4 points
DescriptionScore(has_description) == 40

\* _response_rate_score
ResponseRateScore(reviews_responded, reviews_returned) ==
    IF reviews_returned = 0 THEN 0
    ELSE Round1(reviews_responded * 6, reviews_returned)

\* _grade
GradeStrict(total) ==
    IF total > 85 THEN "A"
    ELSE IF total > 70 THEN "B"
    ELSE IF total > 55 THEN "C"
    ELSE IF total > 40 THEN "D"
    ELSE "F"

Grade(total) ==
    IF total >= 85 THEN "A"
    ELSE IF total >= 70 THEN "B"
    ELSE IF total >= 55 THEN "C"
    ELSE IF total >= 40 THEN "D"
    ELSE "F"

\* ------------------------------------------------------------------------
\* Recommendations
\* ------------------------------------------------------------------------
\* the value of an absent top_competitor_name (Python's None)
None == "<None>"

\* one recommendation string: the rule that produced it and the rival name
\* its template interpolates ("" when the template names no rival)
Tip(rule, rival) == [rule |-> rule, rival |-> rival]

FallbackTip == Tip("fallback", "")

\* _get_recommendations with the photo rule firing below half of the
\* photo maximum and the closing fallback left out
GetRecommendationsNoFallback(scores, b, top_competitor_name) ==
    LET rival == IF top_competitor_name \in {None, ""}
                 THEN "dina konkurrenter" ELSE top_competitor_name
        comp  == Get(scores, "completeness_breakdown", <<>>)
        When(cond, tip) == IF cond THEN <<tip>> ELSE <<>>
    IN  When(scores.rating_score < 150, Tip("rating", rival)) \o
        When(scores.reviews_score < 170, Tip("reviews", rival)) \o
        When(scores.photos_score < 50, Tip("photos", "")) \o
        When(~Get(comp, "has_website", FALSE), Tip("website", rival)) \o
        When(~Get(comp, "has_phone", FALSE), Tip("phone", "")) \o
        When(~Get(comp, "has_hours", FALSE), Tip("hours", "")) \o
        When(~Get(comp, "has_specific_categories", FALSE), Tip("categories", "")) \o
        When(scores.description_score = 0, Tip("description", rival)) \o
        When(scores.response_score < 30, Tip("response", ""))

\* _get_recommendations with the four completeness rules evaluated first
GetRecommendationsCompletenessFirst(scores, b, top_competitor_name) ==
    LET rival == IF top_competitor_name \in {None, ""}
                 THEN "dina konkurrenter" ELSE top_competitor_name
        comp  == Get(scores, "completeness_breakdown", <<>>)
        When(cond, tip) == IF cond THEN <<tip>> ELSE <<>>
        tips  ==
            When(~Get(comp, "has_website", FALSE), Tip("website", rival)) \o
            When(~Get(comp, "has_phone", FALSE), Tip("phone", "")) \o
            When(~Get(comp, "has_hours", FALSE), Tip("hours", "")) \o
            When(~Get(comp, "has_specific_categories", FALSE), Tip("categories", "")) \o
            When(scores.rating_score < 150, Tip("rating", rival)) \o
            When(scores.reviews_score < 170, Tip("reviews", rival)) \o
            When(scores.photos_score < 120, Tip("photos", "")) \o
            When(scores.description_score = 0, Tip("description", rival)) \o
            When(scores.response_score < 30, Tip("response", ""))
    IN  IF tips = <<>> THEN <<FallbackTip>> ELSE tips

\* _get_recommendations: nine rules in a fixed order, then the fallback
GetRecommendations(scores, b, top_competitor_name) ==
    LET rival == IF top_competitor_name \in {None, ""}
                 THEN "dina konkurrenter" ELSE top_competitor_name
        comp  == Get(scores, "completeness_breakdown", <<>>)
        When(cond, tip) == IF cond THEN <<tip>> ELSE <<>>
        tips  ==
            When(scores.rating_score < 150, Tip("rating", rival)) \o
            When(scores.reviews_score < 170, Tip("reviews", rival)) \o
            When(scores.photos_score < 120, Tip("photos", "")) \o
            When(~Get(comp, "has_website", FALSE), Tip("website", rival)) \o
            When(~Get(comp, "has_phone", FALSE), Tip("phone", "")) \o
            When(~Get(comp, "has_hours", FALSE), Tip("hours", "")) \o
            When(~Get(comp, "has_specific_categories", FALSE), Tip("categories", "")) \o
            When(scores.description_score = 0, Tip("description", rival)) \o
            When(scores.response_score < 30, Tip("response", ""))
    IN  IF tips = <<>> THEN <<FallbackTip>> ELSE tips

\* ------------------------------------------------------------------------
\* calculate_score
\* ------------------------------------------------------------------------
\* the competitor benchmark as a fraction num/den: the median of the sorted
\* truthy review counts, 0 when there is none
CompetitorAvgUpperMiddle(cs) ==
    LET counts == Sorted(TruthyReviewCounts(cs))
        mid    == Len(counts) \div 2
    IN  IF counts # <<>>
        THEN [num |-> counts[mid + 1], den |-> 1]
        ELSE [num |-> 0, den |-> 1]

CompetitorAvg(cs) ==
    LET counts == Sorted(TruthyReviewCounts(cs))
        mid    == Len(counts) \div 2
    IN  IF counts # <<>>
        THEN IF Len(counts) % 2 = 1
             THEN [num |-> counts[mid + 1], den |-> 1]
             ELSE [num |-> counts[mid] + counts[mid + 1], den |-> 2]
        ELSE [num |-> 0, den |-> 1]

\* c["review_count"] raises KeyError for a competitor without that key
RaisesKeyError(cs) == \E i \in 1..Len(cs) : "review_count" \notin DOMAIN cs[i]

\* the per-metric maxima echoed in the result (whole points)
MaxScores ==
    [rating_score |-> 35,
     reviews_score |-> 30,
     photos_score |-> 10,
     completeness_score |-> 16,
     description_score |-> 4,
     response_score |-> 6]

\* total = int(sum of the six sub-scores) without the clamp to 100
TotalUnclamped(sum) == IntOfTenths(sum)

\* total = min(int(sum of the six sub-scores), 100)
Total(sum) == Min(IntOfTenths(sum), 100)

CalculateScore(b, cs, top_competitor_name) ==
    LET competitor_avg == CompetitorAvg(cs)
        rating_score   == RatingScore(Get(b, "rating", 0))
        reviews_score  == ReviewsScore(Get(b, "review_count", 0), competitor_avg)
        photos_score   == PhotosScore(Get(b, "photo_count", 0))
        completeness   == CompletenessScore(Get(b, "has_website", FALSE),
                                            Get(b, "has_phone", FALSE),
                                            Get(b, "has_hours", FALSE),
                                            Get(b, "has_specific_categories", FALSE))
        description_score == DescriptionScore(Get(b, "has_description", FALSE))
        response_score == ResponseRateScore(Get(b, "reviews_responded", 0),
                                            Get(b, "reviews_returned", 0))
        total  == Total(rating_score + reviews_score + photos_score +
                        completeness.pts + description_score + response_score)
        scores == [total |-> total,
                   rating_score |-> rating_score,
                   reviews_score |-> reviews_score,
                   photos_score |-> photos_score,
                   completeness_score |-> completeness.pts,
                   completeness_breakdown |-> completeness.breakdown,
                   description_score |-> description_score,
                   response_score |-> response_score,
                   competitor_avg_reviews |->
                       Round1(competitor_avg.num, competitor_avg.den)]
    IN  scores @@
        [recommendations |-> GetRecommendations(scores, b, top_competitor_name),
         grade |-> Grade(total),
         max_scores |-> MaxScores]

\* ------------------------------------------------------------------------
\* Competitor filter (src/utils/places_api.py)
\* ------------------------------------------------------------------------
Abs(x) == IF x < 0 THEN -x ELSE x

Max(a, b) == IF a >= b THEN a ELSE b

\* a slice that runs one element too far
TakeThrough(s, n) == SubSeq(s, 1, Min(n + 1, Len(s)))

\* s[:n] for n >= 0
Take(s, n) == SubSeq(s, 1, Min(n, Len(s)))

\* [c for c in candidates if c["review_count"] <= cap]
LocalSubset(cands, cap) == SelectSeq(cands, LAMBDA c : c.review_count <= cap)

\* list.sort(key=review_count, reverse=True): a stable sort, equal review
\* counts keep their input order
RECURSIVE InsertByReviewsDesc(_, _)
InsertByReviewsDesc(x, s) ==
    IF s = <<>> THEN <<x>>
    ELSE IF Head(s).review_count >= x.review_count
         THEN <<Head(s)>> \o InsertByReviewsDesc(x, Tail(s))
         ELSE <<x>> \o s

RECURSIVE InsertByReviewsAsc(_, _)
InsertByReviewsAsc(x, s) ==
    IF s = <<>> THEN <<x>>
    ELSE IF Head(s).review_count <= x.review_count
         THEN <<Head(s)>> \o InsertByReviewsAsc(x, Tail(s))
         ELSE <<x>> \o s

\* the sort without reverse=True
RECURSIVE SortByReviewsAsc(_)
SortByReviewsAsc(s) ==
    IF s = <<>> THEN <<>>
    ELSE InsertByReviewsAsc(s[Len(s)], SortByReviewsAsc(SubSeq(s, 1, Len(s) - 1)))

RECURSIVE SortByReviewsDesc(_)
SortByReviewsDesc(s) ==
    IF s = <<>> THEN <<>>
    ELSE InsertByReviewsDesc(s[Len(s)], SortByReviewsDesc(SubSeq(s, 1, Len(s) - 1)))

\* sorted(candidates, key=abs(review_count - own)): stable, ascending
RECURSIVE InsertByDistance(_, _, _)
InsertByDistance(x, s, own) ==
    IF s = <<>> THEN <<x>>
    ELSE IF Abs(Head(s).review_count - own) <= Abs(x.review_count - own)
         THEN <<Head(s)>> \o InsertByDistance(x, Tail(s), own)
         ELSE <<x>> \o s

\* the fallback handing back the original list as it came
SortByDistanceOriginalOrder(s, own) == s

RECURSIVE SortByDistance(_, _)
SortByDistance(s, own) ==
    IF s = <<>> THEN <<>>
    ELSE InsertByDistance(s[Len(s)], SortByDistance(SubSeq(s, 1, Len(s) - 1), own), own)

\* _filter_local_competitors without a fallback: the local subset whatever
\* its size
FilterLocalCompetitorsLocalOnly(cands, own_count, n) ==
    LET own   == Max(own_count, 1)
        cap   == Max(own * 25, 300)
        local == SortByReviewsDesc(LocalSubset(cands, cap))
    IN  Take(local, n)

\* _filter_local_competitors with the local subset left in input order
FilterLocalCompetitorsUnsorted(cands, own_count, n) ==
    LET own   == Max(own_count, 1)
        cap   == Max(own * 25, 300)
        local == LocalSubset(cands, cap)
    IN  IF Len(local) >= 2
        THEN Take(local, n)
        ELSE Take(SortByDistance(cands, own), n)

\* _filter_local_competitors with the fallback ordered like the local
\* subset, by review count descending
FilterLocalCompetitorsFallbackByReviews(cands, own_count, n) ==
    LET own   == Max(own_count, 1)
        cap   == Max(own * 25, 300)
        local == SortByReviewsDesc(LocalSubset(cands, cap))
    IN  IF Len(local) >= 2
        THEN Take(local, n)
        ELSE Take(SortByReviewsDesc(cands), n)

\* _filter_local_competitors
FilterLocalCompetitors(cands, own_count, n) ==
    LET own   == Max(own_count, 1)
        cap   == Max(own * 25, 300)
        local == SortByReviewsDesc(LocalSubset(cands, cap))
    IN  IF Len(local) >= 2
        THEN Take(local, n)
        ELSE Take(SortByDistance(cands, own), n)

\* ------------------------------------------------------------------------
\* Competitor search (src/utils/places_api.py)
\* ------------------------------------------------------------------------
GENERIC_TYPES ==
    {"establishment", "point_of_interest", "food", "store", "health",
     "finance", "local_government_office"}

\* the elements of a list of types
TypeSet(types) == {types[i] : i \in 1..Len(types)}

\* _same_industry: the two businesses share a type outside GENERIC_TYPES
SameIndustry(business_types, competitor_types) ==
    ((TypeSet(business_types) \ GENERIC_TYPES)
        \cap (TypeSet(competitor_types) \ GENERIC_TYPES)) # {}

\* primary type: the first non-generic type, else the first type, else
\* "establishment"
PrimaryType(types) ==
    IF \E i \in 1..Len(types) : types[i] \notin GENERIC_TYPES
    THEN types[CHOOSE i \in 1..Len(types) :
                   /\ types[i] \notin GENERIC_TYPES
                   /\ \A j \in 1..(i - 1) : types[j] \in GENERIC_TYPES]
    ELSE IF types # <<>> THEN types[1] ELSE "establishment"

\* get_place_details(pid) for a place of the nearby search whose details
\* request succeeds
DetailsOf(place) ==
    [place_id |-> place.place_id, name |-> place.name, types |-> place.types,
     review_count |-> place.review_count]

\* the loop of get_competitors without the test against exclude_place_id
RECURSIVE CollectCompetitorsNoExclusion(_, _, _, _, _)
CollectCompetitorsNoExclusion(places, acc, business_types, exclude_place_id, limit) ==
    IF places = <<>> THEN acc
    ELSE LET place == Head(places)
         IN  IF place.place_id \in {None, ""}
             THEN CollectCompetitorsNoExclusion(Tail(places), acc, business_types,
                                                exclude_place_id, limit)
             ELSE IF ~place.details_ok
             THEN CollectCompetitorsNoExclusion(Tail(places), acc, business_types,
                                                exclude_place_id, limit)
             ELSE IF ~SameIndustry(business_types, DetailsOf(place).types)
             THEN CollectCompetitorsNoExclusion(Tail(places), acc, business_types,
                                                exclude_place_id, limit)
             ELSE IF Len(acc) + 1 >= limit
             THEN Append(acc, DetailsOf(place))
             ELSE CollectCompetitorsNoExclusion(Tail(places),
                                                Append(acc, DetailsOf(place)),
                                                business_types, exclude_place_id, limit)

\* the loop of get_competitors over the places of the nearby search: skip a
\* place without an id or with the subject's id, skip a place whose details
\* request raises, skip another industry, stop at `limit` competitors
RECURSIVE CollectCompetitors(_, _, _, _, _)
CollectCompetitors(places, acc, business_types, exclude_place_id, limit) ==
    IF places = <<>> THEN acc
    ELSE LET place == Head(places)
         IN  IF place.place_id \in {None, ""} \/ place.place_id = exclude_place_id
             THEN CollectCompetitors(Tail(places), acc, business_types,
                                     exclude_place_id, limit)
             ELSE IF ~place.details_ok
             THEN CollectCompetitors(Tail(places), acc, business_types,
                                     exclude_place_id, limit)
             ELSE IF ~SameIndustry(business_types, DetailsOf(place).types)
             THEN CollectCompetitors(Tail(places), acc, business_types,
                                     exclude_place_id, limit)
             ELSE IF Len(acc) + 1 >= limit
             THEN Append(acc, DetailsOf(place))
             ELSE CollectCompetitors(Tail(places), Append(acc, DetailsOf(place)),
                                     business_types, exclude_place_id, limit)

\* get_competitors; `search` is the answer of the nearby search
GetCompetitors(location, primary_type, business_types, exclude_place_id, limit, search) ==
    IF location = <<>> THEN <<>>
    ELSE IF primary_type \in GENERIC_TYPES THEN <<>>
    ELSE IF search.status \notin {"OK", "ZERO_RESULTS"} THEN <<>>
    ELSE CollectCompetitors(search.results, <<>>, business_types,
                            exclude_place_id, limit)

\* ------------------------------------------------------------------------
\* Inputs
\* ------------------------------------------------------------------------
\* review counts at the steps of the reviews scale
ReviewSteps == {0, 1, 10, 20, 30, 50, 100, 200}

Flags ==
    [has_website : BOOLEAN, has_phone : BOOLEAN, has_hours : BOOLEAN,
     has_specific_categories : BOOLEAN, has_description : BOOLEAN]

NoFlags  == [has_website |-> FALSE, has_phone |-> FALSE, has_hours |-> FALSE,
             has_specific_categories |-> FALSE, has_description |-> FALSE]
AllFlags == [has_website |-> TRUE, has_phone |-> TRUE, has_hours |-> TRUE,
             has_specific_categories |-> TRUE, has_description |-> TRUE]

\* the rating key of a profile: a rating in tenths, or no key at all
RatingKeys == {[rating |-> r] : r \in 0..MaxRating} \cup {<<>>}

\* (reviews_responded, reviews_returned) with responded <= returned
ResponsePairs == {p \in (0..MaxReturned) \X (0..MaxReturned) : p[1] <= p[2]}

Profile(ratingKey, review_count, photo_count, flags, pair) ==
    ratingKey @@ flags @@
    [review_count |-> review_count, photo_count |-> photo_count,
     reviews_responded |-> pair[1], reviews_returned |-> pair[2]]

\* every rating with every response sample, at the steps of the reviews scale
RatingProfiles(b) ==
    \E rk \in RatingKeys, n \in ReviewSteps, p \in {0, 10},
       f \in {NoFlags, AllFlags}, pair \in ResponsePairs :
        b = Profile(rk, n, p, f, pair)

\* every review count
ReviewProfiles(b) ==
    \E r \in {0, 50}, n \in 0..MaxReviewCount, p \in {0, 10},
       f \in {NoFlags, AllFlags},
       pair \in {<<0, 0>>, <<MaxReturned, MaxReturned>>} :
        b = Profile([rating |-> r], n, p, f, pair)

\* every combination of flags with every photo count
FlagProfiles(b) ==
    \E r \in {0, 50}, n \in ReviewSteps, p \in 0..MaxPhotoCount,
       f \in Flags,
       pair \in {<<0, 0>>, <<MaxReturned, MaxReturned>>} :
        b = Profile([rating |-> r], n, p, f, pair)

\* the weakest and the strongest profile
CornerProfiles ==
    {Profile([rating |-> 0], 0, 0, NoFlags, <<0, 0>>),
     Profile([rating |-> 50], 200, 10, AllFlags, <<MaxReturned, MaxReturned>>)}

\* strong profiles whose review count is of the size of the competitors'
ComparableProfiles ==
    {Profile([rating |-> 50], n, 10, AllFlags, <<MaxReturned, MaxReturned>>) :
        n \in 0..MaxCompReviews}

\* the keys calculate_score reads from a business profile
OptionalKeys ==
    {"rating", "review_count", "photo_count", "has_website", "has_phone",
     "has_hours", "has_specific_categories", "has_description",
     "reviews_responded", "reviews_returned"}

\* a dict with only some of its keys present
Restrict(d, keys) == [k \in keys \cap DOMAIN d |-> d[k]]

\* the corner profiles with any subset of the optional keys missing
SparseProfiles(b) ==
    \E full \in CornerProfiles, keys \in SUBSET OptionalKeys :
        b = Restrict(full, keys)

Competitor(n) == [name |-> "c", review_count |-> n]

\* competitor records, some without a review count
SparseCompetitorSets ==
    UNION {[1..k -> {Competitor(0), Competitor(2), [name |-> "c"]}] : k \in 0..2}

CompetitorSets ==
    UNION {[1..k -> {Competitor(n) : n \in 0..MaxCompReviews}] : k \in 0..MaxCompetitors}

TopNames == {None, "", "Rival AB"}

\* review counts of the subject handed to the filter (caps 300, 300, 325)
OwnReviewCounts == {0, 10, 13}

\* review counts of candidates, on both sides of the caps
CandidateReviewCounts == {0, 20, 50, 300, 301, 326, 4000, 5000}

\* ------------------------------------------------------------------------
\* State machine: one call of calculate_score
\* ------------------------------------------------------------------------
VARIABLES business, competitors, top_competitor_name, result, pc

\* one call of _filter_local_competitors: its arguments, its result and
\* where the call stands
VARIABLES candidates, own_review_count, want, filtered, fpc

scoreVars == <<business, competitors, top_competitor_name, result, pc>>

filterVars == <<candidates, own_review_count, want, filtered, fpc>>

\* the web application: the environment's webhook URL, the in-memory result
\* store (a token is a position in it), the webhook threads started so far,
\* the last HTTP response sent, how often each message was logged and how
\* many analyze requests were served
VARIABLES webhook_url, results_store, threads, response, log, requests

appVars == <<webhook_url, results_store, threads, response, log, requests>>

\* the competitor search of build_full_report_data: the subject's profile,
\* the answer of the nearby search, the limit handed to get_competitors, what
\* get_competitors returned, what the filter kept of it, and where the call
\* stands
VARIABLES subject, nearby, limit_arg, raw_competitors, report_competitors, cpc

searchVars == <<subject, nearby, limit_arg, raw_competitors, report_competitors, cpc>>

vars == <<scoreVars, filterVars, appVars, searchVars>>

\* no competitor search takes part
SearchIdle ==
    /\ subject = <<>>
    /\ nearby = <<>>
    /\ limit_arg = 0
    /\ raw_competitors = <<>>
    /\ report_competitors = <<>>
    /\ cpc = "idle"

\* no call of calculate_score takes part
ScoreIdle ==
    /\ business = <<>>
    /\ competitors = <<>>
    /\ top_competitor_name = None
    /\ result = <<>>
    /\ pc = "idle"

LogMessages ==
    {"Unexpected error fetching Places data", "PDF generated",
     "PDF generation failed", "GHL webhook URL not configured",
     "GHL webhook fired", "GHL webhook failed"}

NoResponse == [route |-> "none", status |-> 0]

\* the web application takes no part
AppIdle ==
    /\ webhook_url = ""
    /\ results_store = <<>>
    /\ threads = <<>>
    /\ response = NoResponse
    /\ log = [m \in LogMessages |-> 0]
    /\ requests = 0

\* no call of _filter_local_competitors takes part
FilterIdle ==
    /\ candidates = <<>>
    /\ own_review_count = 0
    /\ want = 1
    /\ filtered = <<>>
    /\ fpc = "idle"

Init ==
    /\ \/ /\ \/ RatingProfiles(business)
             \/ ReviewProfiles(business)
             \/ FlagProfiles(business)
          /\ competitors = <<>>
          /\ top_competitor_name = None
       \/ /\ business \in CornerProfiles
          /\ competitors \in CompetitorSets
          /\ top_competitor_name \in TopNames
       \/ /\ business \in ComparableProfiles
          /\ competitors \in CompetitorSets
          /\ top_competitor_name = None
       \/ /\ SparseProfiles(business)
          /\ competitors \in SparseCompetitorSets
          /\ top_competitor_name = None
    /\ result = <<>>
    /\ pc = "call"
    /\ FilterIdle
    /\ AppIdle
    /\ SearchIdle

\* scores = calculate_score(business, competitors, top_competitor_name)
Calculate ==
    /\ pc = "call"
    /\ IF RaisesKeyError(competitors)
       THEN /\ result' = [raised |-> "KeyError"]
            /\ pc' = "raised"
       ELSE /\ result' = CalculateScore(business, competitors, top_competitor_name)
            /\ pc' = "returned"
    /\ UNCHANGED <<business, competitors, top_competitor_name>>
    /\ UNCHANGED <<filterVars, appVars, searchVars>>

Next == Calculate

Spec == Init /\ [][Next]_vars

\* ------------------------------------------------------------------------
\* State machine: one call of _filter_local_competitors
\* ------------------------------------------------------------------------
\* the nearby-search candidates in the order the search returned them; the
\* place id of a candidate is its position
CandidateLists ==
    UNION {[1..k -> CandidateReviewCounts] : k \in 0..MaxCandidates}

Candidates(counts) ==
    [i \in 1..Len(counts) |->
        [place_id |-> i, name |-> "c", review_count |-> counts[i]]]

InitFilter ==
    /\ ScoreIdle
    /\ AppIdle
    /\ SearchIdle
    /\ \E counts \in CandidateLists : candidates = Candidates(counts)
    /\ own_review_count \in OwnReviewCounts
    /\ want \in 1..MaxWant
    /\ filtered = <<>>
    /\ fpc = "call"

\* filtered = _filter_local_competitors(candidates, own_review_count, want)
Filter ==
    /\ fpc = "call"
    /\ filtered' = FilterLocalCompetitors(candidates, own_review_count, want)
    /\ fpc' = "returned"
    /\ UNCHANGED <<candidates, own_review_count, want>>
    /\ UNCHANGED <<scoreVars, appVars, searchVars>>

NextFilter == Filter

SpecFilter == InitFilter /\ [][NextFilter]_vars

\* ------------------------------------------------------------------------
\* State machine: the web application (src/app.py)
\* ------------------------------------------------------------------------
\* str.strip() on the form values that occur
Strip(v) == IF v = " " THEN "" ELSE v

\* the submitted forms: complete, or with a first name of blanks only
Forms ==
    {[first_name |-> fn, email |-> "ann@example.com", phone |-> "070",
      business_name |-> "Cafe AB", city |-> "Lund"] :
        fn \in {"Ann", " "}}

\* a normalised profile as get_place_details returns it
Place(id, name, profile) == profile @@ [place_id |-> id, name |-> name]

\* what build_full_report_data meets: no match, an API failure, or a subject
\* with the nearby candidates that passed get_competitors
Lookups ==
    {[kind |-> "not_found"], [kind |-> "error"],
     [kind |-> "found",
      business |-> Place("p0", "Cafe AB",
                         Profile([rating |-> 50], 200, 10, AllFlags,
                                 <<MaxReturned, MaxReturned>>)),
      raw |-> <<Place("p1", "Rival A",
                      Profile([rating |-> 30], 20, 4, NoFlags, <<0, 0>>)),
                Place("p2", "Rival B",
                      Profile([rating |-> 45], 700, 10, AllFlags, <<1, MaxReturned>>))>>],
     [kind |-> "found",
      business |-> Place("p0", "Cafe AB",
                         Profile([rating |-> 43], 10, 3, NoFlags, <<0, 0>>)),
      raw |-> <<Place("p3", "Chain A",
                      Profile([rating |-> 40], 5000, 10, AllFlags, <<0, MaxReturned>>)),
                Place("p4", "Chain B",
                      Profile([rating |-> 41], 4000, 10, AllFlags, <<0, MaxReturned>>))>>],
     [kind |-> "found",
      business |-> Place("p0", "Cafe AB",
                         Profile([rating |-> 0], 0, 0, NoFlags, <<0, 0>>)),
      raw |-> <<>>]}

\* generate_pdf_bytes returns bytes or raises
PdfOutcomes == {"bytes", "raises"}

PdfBytes == "%PDF"

\* the values of GHL_WEBHOOK_URL
WebhookUrls == {"", "https://hooks.example/REPLACE_ME", "https://hooks.example/abc"}

\* not webhook_url or "REPLACE_ME" in webhook_url
Unconfigured(url) == url \in {"", "https://hooks.example/REPLACE_ME"}

\* requests.post(...) and raise_for_status(): delivered, an HTTP error or a
\* timeout
PostOutcomes == {"ok", "http_error", "timeout"}

\* build_full_report_data for a lookup that found the business
BuildFullReportData(lookup) ==
    [business |-> lookup.business,
     competitors |-> FilterLocalCompetitors(lookup.raw,
                                            lookup.business.review_count, 5)]

\* max(range(len(scores)), key=...): the first position of the largest score
TopIndex(scores) ==
    CHOOSE i \in 1..Len(scores) :
        /\ \A j \in 1..Len(scores) : scores[j] <= scores[i]
        /\ \A j \in 1..(i - 1) : scores[j] < scores[i]

\* the personalised review ratio copy
ReviewRatioText(b, top_competitor) ==
    LET user_reviews == IF Get(b, "review_count", 1) = 0
                        THEN 1 ELSE Get(b, "review_count", 1)
        top_reviews  == Get(top_competitor, "review_count", 0)
    IN  IF top_reviews > user_reviews /\ top_reviews >= 3 * user_reviews
        THEN [text |-> "x fler kunder", times |-> top_reviews \div user_reviews]
        ELSE IF top_reviews > user_reviews /\ top_reviews >= 2 * user_reviews
        THEN [text |-> "dubbelt", times |-> 0]
        ELSE IF top_reviews > user_reviews /\ 2 * top_reviews >= 3 * user_reviews
        THEN [text |-> "50% fler kunder", times |-> 0]
        ELSE [text |-> "fler kunder", times |-> 0]

\* the dict analyze stores under the token
StoreEntry(form, report, pdf) ==
    LET b      == report.business
        cs     == report.competitors
        competitor_scores ==
            [i \in 1..Len(cs) |-> CalculateScore(cs[i], <<>>, None).total]
        has_top == cs # <<>>
        top_competitor == IF has_top THEN cs[TopIndex(competitor_scores)] ELSE <<>>
        top_name == IF has_top THEN top_competitor.name ELSE None
        scores == CalculateScore(b, cs, top_name)
    IN  [first_name |-> Strip(form.first_name),
         email |-> Strip(form.email),
         phone |-> Strip(form.phone),
         business_name |-> Strip(form.business_name),
         city |-> Strip(form.city),
         business |-> b,
         competitors |-> cs,
         competitor_scores |-> competitor_scores,
         scores |-> scores,
         top_competitor_name |-> top_name,
         competitors_beating |->
             Cardinality({i \in 1..Len(cs) : competitor_scores[i] > scores.total}),
         review_ratio_text |->
             IF has_top THEN ReviewRatioText(b, top_competitor)
             ELSE [text |-> "fler kunder", times |-> 0],
         pdf_bytes |-> IF pdf = "bytes" THEN PdfBytes ELSE None]

\* the payload handed to the webhook thread
WebhookPayload(entry) ==
    [first_name |-> entry.first_name, email |-> entry.email,
     phone |-> entry.phone, business_name |-> entry.business_name,
     city |-> entry.city, score |-> entry.scores.total,
     grade |-> entry.scores.grade]

Logged(msg) == [log EXCEPT ![msg] = @ + 1]

RedirectToIndex(flash) ==
    [route |-> "analyze", status |-> 302, location |-> "index", flash |-> flash]

\* POST /analyze
Analyze(form, lookup, pdf) ==
    /\ requests < MaxRequests
    /\ requests' = requests + 1
    /\ UNCHANGED webhook_url
    /\ IF \E k \in {"first_name", "email", "business_name", "city"} :
              Strip(form[k]) = ""
       THEN /\ response' = RedirectToIndex("Please fill in all required fields.")
            /\ UNCHANGED <<results_store, threads, log>>
       ELSE IF lookup.kind = "not_found"
       THEN /\ response' = RedirectToIndex("Vi kunde inte hitta")
            /\ UNCHANGED <<results_store, threads, log>>
       ELSE IF lookup.kind = "error"
       THEN /\ response' = RedirectToIndex("We encountered an error")
            /\ log' = Logged("Unexpected error fetching Places data")
            /\ UNCHANGED <<results_store, threads>>
       ELSE LET entry == StoreEntry(form, BuildFullReportData(lookup), pdf)
                token == Len(results_store) + 1
            IN  /\ log' = Logged(IF pdf = "bytes" THEN "PDF generated"
                                 ELSE "PDF generation failed")
                /\ threads' = Append(threads,
                                     [payload |-> WebhookPayload(entry),
                                      status |-> "started", posts |-> 0,
                                      outcome |-> "pending"])
                /\ results_store' = Append(results_store, entry)
                /\ response' = [route |-> "analyze", status |-> 302,
                                location |-> "results", token |-> token]

\* GET /results/<token> that also needs the PDF bytes
ResultsRequiresPdf(token) ==
    /\ IF token \notin DOMAIN results_store
          \/ results_store[token].pdf_bytes = None
       THEN response' = [route |-> "results", status |-> 404, token |-> token]
       ELSE response' =
                [route |-> "results", status |-> 200, token |-> token,
                 pdf_path |-> TRUE,
                 data |-> [k \in DOMAIN results_store[token] \ {"pdf_bytes"} |->
                              results_store[token][k]]]
    /\ UNCHANGED <<webhook_url, results_store, threads, log, requests>>

\* GET /results/<token>
Results(token) ==
    /\ IF token \notin DOMAIN results_store
       THEN response' = [route |-> "results", status |-> 404, token |-> token]
       ELSE response' =
                [route |-> "results", status |-> 200, token |-> token,
                 pdf_path |-> results_store[token].pdf_bytes # None,
                 data |-> [k \in DOMAIN results_store[token] \ {"pdf_bytes"} |->
                              results_store[token][k]]]
    /\ UNCHANGED <<webhook_url, results_store, threads, log, requests>>

\* GET /download/<token> that drops the PDF bytes once they are served
DownloadOnce(token) ==
    /\ IF token \notin DOMAIN results_store
       THEN response' = [route |-> "download", status |-> 404, token |-> token]
            /\ UNCHANGED results_store
       ELSE IF results_store[token].pdf_bytes = None
       THEN response' = [route |-> "download", status |-> 404, token |-> token]
            /\ UNCHANGED results_store
       ELSE /\ response' =
                   [route |-> "download", status |-> 200, token |-> token,
                    body |-> results_store[token].pdf_bytes]
            /\ results_store' = [results_store EXCEPT ![token].pdf_bytes = None]
    /\ UNCHANGED <<webhook_url, threads, log, requests>>

\* GET /download/<token>
Download(token) ==
    /\ IF token \notin DOMAIN results_store
       THEN response' = [route |-> "download", status |-> 404, token |-> token]
       ELSE IF results_store[token].pdf_bytes = None
       THEN response' = [route |-> "download", status |-> 404, token |-> token]
       ELSE response' =
                [route |-> "download", status |-> 200, token |-> token,
                 body |-> results_store[token].pdf_bytes]
    /\ UNCHANGED <<webhook_url, results_store, threads, log, requests>>

\* _fire_ghl_webhook posting again after a failed delivery
FireGhlWebhookRetry(i, outcome) ==
    /\ i \in 1..Len(threads)
    /\ threads[i].status = "started"
    /\ IF Unconfigured(webhook_url)
       THEN /\ threads' = [threads EXCEPT ![i].status = "finished",
                                          ![i].outcome = "skipped"]
            /\ log' = Logged("GHL webhook URL not configured")
       ELSE /\ threads' = [threads EXCEPT
                              ![i].status = IF outcome = "ok" \/ threads[i].posts >= 1
                                            THEN "finished" ELSE "started",
                              ![i].posts = @ + 1,
                              ![i].outcome = outcome]
            /\ log' = Logged(IF outcome = "ok" THEN "GHL webhook fired"
                             ELSE "GHL webhook failed")
    /\ UNCHANGED <<webhook_url, results_store, response, requests>>

\* _fire_ghl_webhook: the body of the daemon thread started by
\* fire_webhook_async
FireGhlWebhook(i, outcome) ==
    /\ i \in 1..Len(threads)
    /\ threads[i].status = "started"
    /\ IF Unconfigured(webhook_url)
       THEN /\ threads' = [threads EXCEPT ![i].status = "finished",
                                          ![i].outcome = "skipped"]
            /\ log' = Logged("GHL webhook URL not configured")
       ELSE /\ threads' = [threads EXCEPT ![i].status = "finished",
                                          ![i].posts = @ + 1,
                                          ![i].outcome = outcome]
            /\ log' = Logged(IF outcome = "ok" THEN "GHL webhook fired"
                             ELSE "GHL webhook failed")
    /\ UNCHANGED <<webhook_url, results_store, response, requests>>

InitApp ==
    /\ ScoreIdle
    /\ FilterIdle
    /\ SearchIdle
    /\ webhook_url \in WebhookUrls
    /\ results_store = <<>>
    /\ threads = <<>>
    /\ response = NoResponse
    /\ log = [m \in LogMessages |-> 0]
    /\ requests = 0

NextApp ==
    \/ \E form \in Forms, lookup \in Lookups, pdf \in PdfOutcomes :
           Analyze(form, lookup, pdf) /\ UNCHANGED <<scoreVars, filterVars, searchVars>>
    \/ \E token \in 1..(MaxRequests + 1) :
           Results(token) /\ UNCHANGED <<scoreVars, filterVars, searchVars>>
    \/ \E token \in 1..(MaxRequests + 1) :
           Download(token) /\ UNCHANGED <<scoreVars, filterVars, searchVars>>
    \/ \E i \in 1..MaxRequests, outcome \in PostOutcomes :
           FireGhlWebhook(i, outcome) /\ UNCHANGED <<scoreVars, filterVars, searchVars>>

SpecApp == InitApp /\ [][NextApp]_vars

\* ------------------------------------------------------------------------
\* State machine: the competitor search of build_full_report_data
\* ------------------------------------------------------------------------
\* type lists of the subject: a specific type first, a generic type first,
\* generic types only, none
SubjectTypes ==
    {<<"cafe", "food", "establishment">>, <<"food", "bakery", "store">>,
     <<"point_of_interest", "establishment">>, <<>>}

\* type lists of the other places: both industries, a third one, generic only
OtherTypes ==
    {<<"bakery", "cafe", "food">>, <<"lodging", "establishment">>,
     <<"food", "establishment">>}

\* the subject as get_place_details returns it
Subjects ==
    {[place_id |-> "p0", name |-> "Cafe AB", types |-> t, location |-> l,
      primary_type |-> PrimaryType(t), review_count |-> 10] :
        t \in SubjectTypes, l \in {<<>>, [lat |-> 55, lng |-> 13]}}

\* the places a nearby search around a subject may list: the subject itself,
\* another place, a place without an id; the details request of a place
\* succeeds or raises
NearbyPlaces(subj) ==
    {[place_id |-> "p0", name |-> subj.name, types |-> subj.types,
      review_count |-> subj.review_count, details_ok |-> ok] : ok \in BOOLEAN}
    \cup {[place_id |-> "p1", name |-> "Rival A", types |-> t,
           review_count |-> 20, details_ok |-> TRUE] : t \in OtherTypes}
    \cup {[place_id |-> "p1", name |-> "Rival A", types |-> <<>>,
           review_count |-> 0, details_ok |-> FALSE],
          [place_id |-> None, name |-> "", types |-> <<>>,
           review_count |-> 0, details_ok |-> FALSE]}

\* answers of the nearby search; "exception" stands for a failed request
SearchStatuses == {"OK", "ZERO_RESULTS", "OVER_QUERY_LIMIT", "exception"}

\* the limits handed to get_competitors: 10 as build_full_report_data does,
\* and 2, which the search reaches within MaxNearby places
Limits == {2, 10}

InitSearch ==
    /\ ScoreIdle
    /\ FilterIdle
    /\ AppIdle
    /\ subject \in Subjects
    /\ \E status \in SearchStatuses, k \in 0..MaxNearby :
           \E results \in [1..k -> NearbyPlaces(subject)] :
               nearby = [status |-> status, results |-> results]
    /\ limit_arg \in Limits
    /\ raw_competitors = <<>>
    /\ report_competitors = <<>>
    /\ cpc = "call"

\* build_full_report_data from get_competitors on: search, then filter
BuildReport ==
    /\ cpc = "call"
    /\ LET raw == GetCompetitors(subject.location, subject.primary_type,
                                 subject.types, subject.place_id, limit_arg,
                                 nearby)
       IN  /\ raw_competitors' = raw
           /\ report_competitors' =
                  FilterLocalCompetitors(raw, subject.review_count, 5)
    /\ cpc' = "returned"
    /\ UNCHANGED <<subject, nearby, limit_arg>>
    /\ UNCHANGED <<scoreVars, filterVars, appVars>>

NextSearch == BuildReport

SpecSearch == InitSearch /\ [][NextSearch]_vars

\* ------------------------------------------------------------------------
\* Vocabulary of the properties
\* ------------------------------------------------------------------------
Returned == pc = "returned"

\* the documented input domain of a business profile
InDomain(b) ==
    /\ Get(b, "rating", 0) \in 0..50
    /\ Get(b, "review_count", 0) >= 0
    /\ Get(b, "photo_count", 0) \in 0..10
    /\ Get(b, "reviews_responded", 0) <= Get(b, "reviews_returned", 0)

\* sum of the six sub-scores of a result, in tenths
SubScoreSum(r) ==
    r.rating_score + r.reviews_score + r.photos_score +
    r.completeness_score + r.description_score + r.response_score

\* floor of a number of tenths, in whole points
FloorOfTenths(t) == CHOOSE n \in -1..(t + 1) : 10 * n <= t /\ t < 10 * (n + 1)

Clamp(x, lo, hi) == IF x < lo THEN lo ELSE IF x > hi THEN hi ELSE x

CompletenessFlags ==
    {"has_website", "has_phone", "has_hours", "has_specific_categories"}

\* a profile that exceeds every recommendation threshold
StrongProfile(b) ==
    /\ Get(b, "rating", 0) = 50
    /\ Get(b, "review_count", 0) >= 200
    /\ Get(b, "photo_count", 0) = 10
    /\ Get(b, "reviews_returned", 0) > 0
    /\ Get(b, "reviews_responded", 0) = Get(b, "reviews_returned", 0)
    /\ \A k \in CompletenessFlags : Get(b, k, FALSE)

\* the k-th smallest element of a non-empty sequence of integers
KthSmallest(s, k) ==
    CHOOSE v \in {s[i] : i \in 1..Len(s)} :
        /\ Cardinality({i \in 1..Len(s) : s[i] < v}) < k
        /\ Cardinality({i \in 1..Len(s) : s[i] <= v}) >= k

\* twice the median of a sequence of integers, 0 for the empty sequence
TwiceMedian(s) ==
    IF Len(s) = 0 THEN 0
    ELSE IF Len(s) % 2 = 1 THEN 2 * KthSmallest(s, (Len(s) + 1) \div 2)
    ELSE KthSmallest(s, Len(s) \div 2) + KthSmallest(s, Len(s) \div 2 + 1)

CompetitorReviewCounts == [i \in 1..Len(competitors) |-> competitors[i].review_count]

NonZero(x) == x # 0

\* ------------------------------------------------------------------------
\* Properties
\* ------------------------------------------------------------------------
\* C1: the per-metric maxima echoed in max_scores sum to exactly 100.
C1_MaxScoresSumTo100 ==
    Returned =>
        result.max_scores.rating_score + result.max_scores.reviews_score +
        result.max_scores.photos_score + result.max_scores.completeness_score +
        result.max_scores.description_score + result.max_scores.response_score
            = 100

\* C2: for every profile of the documented domain, total is the floor of the
\* sum of the six sub-scores clamped to 0..100, an integer.
C2_TotalIsClampedFloor ==
    (Returned /\ InDomain(business)) =>
        /\ result.total \in 0..100
        /\ result.total = Clamp(FloorOfTenths(SubScoreSum(result)), 0, 100)

\* a score with a fractional sum just below a grade boundary
C2_Witness ==
    /\ Returned /\ InDomain(business)
    /\ SubScoreSum(result) = 699
    /\ result.total = 69

\* C3: for every profile of the documented domain the floor of the sum of the
\* six sub-scores is at most 100, so the clamp never changes the total.
C3_ClampNeverActs ==
    (Returned /\ InDomain(business)) =>
        /\ FloorOfTenths(SubScoreSum(result)) <= 100
        /\ result.total = FloorOfTenths(SubScoreSum(result))

\* C4: the grade is a function of total alone: >= 85 A, 70..84 B, 55..69 C,
\* 40..54 D, below 40 F.
C4_GradeTable ==
    Returned =>
        /\ (result.total >= 85) <=> (result.grade = "A")
        /\ (result.total \in 70..84) <=> (result.grade = "B")
        /\ (result.total \in 55..69) <=> (result.grade = "C")
        /\ (result.total \in 40..54) <=> (result.grade = "D")
        /\ (result.total < 40) <=> (result.grade = "F")

\* a total on a grade boundary
C4_Witness == Returned /\ result.total = 85 /\ result.grade = "A"

C8_RecommendationsNonEmpty ==
    Returned => Len(result.recommendations) >= 1

\* the strongest profile still gets a recommendation
C8_Witness ==
    /\ Returned
    /\ StrongProfile(business)
    /\ Len(result.recommendations) = 1

\* C9: a profile that exceeds every threshold, with all four completeness
\* flags set, gets exactly the fallback message; the fallback appears if and
\* only if no other rule fired.
C9_StrongProfileGetsFallback ==
    (Returned /\ StrongProfile(business)) =>
        /\ result.recommendations = <<FallbackTip>>
        /\ (\E i \in 1..Len(result.recommendations) :
                result.recommendations[i] = FallbackTip)
           <=> (\A i \in 1..Len(result.recommendations) :
                result.recommendations[i].rule = "fallback")

\* C10 as stated: competitor_avg_reviews is the median of the review counts
\* of all competitors.
C10_MedianOfAllCounts ==
    Returned =>
        result.competitor_avg_reviews = 5 * TwiceMedian(CompetitorReviewCounts)

\* C10 amended: competitor_avg_reviews is the median of the non-zero review
\* counts of the competitors (middle element for an odd number of them, mean
\* of the two middle elements for an even number), 0 when there is none.
C10_MedianOfNonZeroCounts ==
    Returned =>
        result.competitor_avg_reviews =
            5 * TwiceMedian(SelectSeq(CompetitorReviewCounts, NonZero))

\* a competitor without reviews next to two with reviews
C10_Witness ==
    /\ Returned
    /\ CompetitorReviewCounts = <<0, 1, 2>>
    /\ result.competitor_avg_reviews = 15

\* the order in which the rules of _get_recommendations are evaluated
RuleOrder ==
    <<"rating", "reviews", "photos", "website", "phone", "hours",
      "categories", "description", "response">>

RulePlace(rule) == CHOOSE i \in 1..Len(RuleOrder) : RuleOrder[i] = rule

ScoreKeys ==
    {"rating_score", "reviews_score", "photos_score", "completeness_score",
     "description_score", "response_score"}

\* the default calculate_score is documented to use for a missing key
DefaultOf(key) ==
    IF key \in {"has_website", "has_phone", "has_hours",
                "has_specific_categories", "has_description"}
    THEN FALSE ELSE 0

\* a business or competitor record with every missing optional key filled in
WithDefaults(d) ==
    [k \in OptionalKeys \cup DOMAIN d |-> IF k \in DOMAIN d THEN d[k] ELSE DefaultOf(k)]

C16_RecommendationOrder ==
    Returned =>
        \/ result.recommendations = <<FallbackTip>>
        \/ /\ \A j \in 1..Len(result.recommendations) :
                  \E i \in 1..Len(RuleOrder) :
                      result.recommendations[j].rule = RuleOrder[i]
           /\ \A j \in 1..(Len(result.recommendations) - 1) :
                  RulePlace(result.recommendations[j].rule)
                      < RulePlace(result.recommendations[j + 1].rule)

\* a list with a score rule, a completeness rule and the response rule
C16_Witness ==
    /\ Returned
    /\ Len(result.recommendations) = 3
    /\ result.recommendations[1].rule = "photos"
    /\ result.recommendations[2].rule = "hours"
    /\ result.recommendations[3].rule = "response"

C18_MissingFieldsAreDefaults ==
    (pc # "call") =>
        /\ pc = "returned"
        /\ result = CalculateScore(WithDefaults(business),
                                   [i \in 1..Len(competitors) |->
                                        WithDefaults(competitors[i])],
                                   top_competitor_name)

\* ------------------------------------------------------------------------
\* Properties of the competitor filter
\* ------------------------------------------------------------------------
FilterReturned == fpc = "returned"

\* own = max(own_review_count, 1) and cap = max(own * 25, 300)
OwnOfCall == IF own_review_count >= 1 THEN own_review_count ELSE 1

CapOfCall == IF OwnOfCall * 25 >= 300 THEN OwnOfCall * 25 ELSE 300

\* positions of the candidates within the cap
WithinCap ==
    {i \in 1..Len(candidates) : candidates[i].review_count <= CapOfCall}

DistanceOf(i) ==
    IF candidates[i].review_count >= OwnOfCall
    THEN candidates[i].review_count - OwnOfCall
    ELSE OwnOfCall - candidates[i].review_count

\* place of a within-cap candidate among the within-cap candidates by review
\* count descending, earlier input first among equals
RankByReviews(i) ==
    1 + Cardinality({k \in WithinCap :
            \/ candidates[k].review_count > candidates[i].review_count
            \/ /\ candidates[k].review_count = candidates[i].review_count
               /\ k < i})

\* place of a candidate among all candidates by distance from own ascending,
\* earlier input first among equals
RankByDistance(i) ==
    1 + Cardinality({k \in 1..Len(candidates) :
            \/ DistanceOf(k) < DistanceOf(i)
            \/ (DistanceOf(k) = DistanceOf(i) /\ k < i)})

ReviewsDescending(s) ==
    \A j \in 1..(Len(s) - 1) : s[j].review_count >= s[j + 1].review_count

\* C11: with at least 2 candidates within the cap the filter returns the first
\* `want` of exactly those, by review count descending, equal counts in input
\* order, and nothing above the cap.
C11_LocalBranch ==
    (FilterReturned /\ Cardinality(WithinCap) >= 2) =>
        /\ Len(filtered) = (IF want <= Cardinality(WithinCap)
                            THEN want ELSE Cardinality(WithinCap))
        /\ \A j \in 1..Len(filtered) :
               \E i \in WithinCap :
                   RankByReviews(i) = j /\ filtered[j] = candidates[i]
        /\ \A j \in 1..Len(filtered) : filtered[j].review_count <= CapOfCall

\* two candidates with the same review count and one above the cap
C11_Witness ==
    /\ FilterReturned
    /\ own_review_count = 10
    /\ Len(candidates) = 3
    /\ candidates[1].review_count = 5000
    /\ candidates[2].review_count = 50
    /\ candidates[3].review_count = 50
    /\ want = 2
    /\ filtered = <<candidates[2], candidates[3]>>

\* C12: with fewer than 2 candidates within the cap the filter returns the
\* first `want` of all candidates sorted ascending by |review_count - own|.
C12_FallbackBranch ==
    (FilterReturned /\ Cardinality(WithinCap) < 2) =>
        /\ Len(filtered) = (IF want <= Len(candidates)
                            THEN want ELSE Len(candidates))
        /\ \A j \in 1..Len(filtered) :
               \E i \in 1..Len(candidates) :
                   RankByDistance(i) = j /\ filtered[j] = candidates[i]

\* own = 10 and candidates [5000, 4000] give [4000, 5000]
C12_Witness ==
    /\ FilterReturned
    /\ own_review_count = 10
    /\ Len(candidates) = 2
    /\ candidates[1].review_count = 5000
    /\ candidates[2].review_count = 4000
    /\ want >= 2
    /\ filtered = <<candidates[2], candidates[1]>>

\* C13: a non-empty candidate list gives a non-empty result, an empty one an
\* empty result.
C13_NonEmptyResult ==
    FilterReturned =>
        /\ (candidates # <<>>) => (filtered # <<>>)
        /\ (candidates = <<>>) => (filtered = <<>>)

\* every candidate is above the cap and the result is not empty
C13_Witness ==
    /\ FilterReturned
    /\ candidates # <<>>
    /\ WithinCap = {}
    /\ filtered # <<>>

\* C14 as stated: the result is ordered by review count descending whichever
\* branch produced it.
C14_AlwaysDescending ==
    FilterReturned => ReviewsDescending(filtered)

\* C14 amended: the result is ordered by review count descending when at
\* least 2 candidates are within the cap; otherwise it is ordered by
\* |review_count - own| ascending.
C14_DescendingInLocalBranch ==
    FilterReturned =>
        /\ (Cardinality(WithinCap) >= 2) => ReviewsDescending(filtered)
        /\ (Cardinality(WithinCap) < 2) =>
               \A j \in 1..(Len(filtered) - 1) :
                   Abs(filtered[j].review_count - OwnOfCall)
                       <= Abs(filtered[j + 1].review_count - OwnOfCall)

\* a fallback result in ascending order of review count
C14_Witness ==
    /\ FilterReturned
    /\ Cardinality(WithinCap) < 2
    /\ Len(filtered) >= 2
    /\ filtered[1].review_count < filtered[2].review_count

\* ------------------------------------------------------------------------
\* Properties of the web application
\* ------------------------------------------------------------------------
RedirectToResults(token) ==
    [route |-> "analyze", status |-> 302, location |-> "results", token |-> token]

\* an analyze request reached scoring in this step: it started its webhook
\* thread
ReachedScoring == Len(threads') > Len(threads)

\* a webhook thread ran in this step
WebhookRan == Len(threads') = Len(threads) /\ threads' # threads

\* C19: notification delivery is fire-and-forget: an analyze request that
\* reaches scoring starts one thread and returns its redirect with the result
\* stored while that thread has not run; a thread posts at most once; whatever
\* a thread does (deliver, fail, time out, skip) leaves the store and the
\* response as they were.
C19_FireAndForget ==
    [][/\ \A i \in 1..Len(threads') : threads'[i].posts <= 1
       /\ Len(threads') = Len(results_store')
       /\ ReachedScoring =>
              LET token == Len(results_store')
              IN  /\ Len(threads') = Len(threads) + 1
                  /\ threads'[token].status = "started"
                  /\ threads'[token].posts = 0
                  /\ Len(results_store') = Len(results_store) + 1
                  /\ results_store'[token].scores =
                         CalculateScore(results_store'[token].business,
                                        results_store'[token].competitors,
                                        results_store'[token].top_competitor_name)
                  /\ response' = RedirectToResults(token)
       /\ WebhookRan =>
              /\ results_store' = results_store
              /\ response' = response
              /\ \A i \in 1..Len(threads) :
                     threads'[i] # threads[i] =>
                         /\ threads[i].status = "started"
                         /\ threads'[i].status = "finished"
                         /\ threads'[i].payload = threads[i].payload
      ]_vars

\* a delivery timed out after the user got the redirect, and the results
\* page of that token still renders
C19_Witness ==
    /\ \E t \in 1..Len(threads) :
           /\ threads[t].outcome = "timeout"
           /\ threads[t].posts = 1
           /\ response.route = "results"
           /\ response.token = t
           /\ response.status = 200
    /\ \E t \in 1..Len(threads) : threads[t].outcome = "pending"

\* C20: when PDF generation raises during analyze the score is still stored
\* under a fresh token and the user is redirected to it; results(token)
\* renders the scores and only download(token) answers 404.
C20_PdfFailureKeepsScore ==
    [][/\ log'["PDF generation failed"] > log["PDF generation failed"] =>
              LET token == Len(results_store')
              IN  /\ token \notin DOMAIN results_store
                  /\ token \in DOMAIN results_store'
                  /\ results_store'[token].pdf_bytes = None
                  /\ results_store'[token].scores =
                         CalculateScore(results_store'[token].business,
                                        results_store'[token].competitors,
                                        results_store'[token].top_competitor_name)
                  /\ response' = RedirectToResults(token)
       /\ \A t \in DOMAIN results_store' :
              results_store'[t].pdf_bytes = None =>
                  /\ (response'.route = "results" /\ response'.token = t) =>
                         /\ response'.status = 200
                         /\ response'.data.scores = results_store'[t].scores
                         /\ response'.pdf_path = FALSE
                  /\ (response'.route = "download" /\ response'.token = t) =>
                         response'.status = 404
      ]_vars

\* the download of a result whose PDF failed answers 404
C20_Witness ==
    /\ log["PDF generation failed"] >= 1
    /\ response.route = "download"
    /\ response.status = 404
    /\ response.token \in DOMAIN results_store
    /\ results_store[response.token].pdf_bytes = None
    /\ results_store[response.token].scores.total = 100

\* the tokens issued so far
Issued == DOMAIN results_store

\* an analyze request was turned back to the form in this step: a failed
\* validation or a failed lookup
TurnedBack ==
    /\ requests' > requests
    /\ response'.route = "analyze"
    /\ response'.location = "index"

\* C24: the result store only grows: analyze adds an entry under a fresh
\* token only after a successful lookup and scoring, never after a validation
\* failure or a lookup error; no operation removes or overwrites an entry, so
\* every later results(token) of an issued token finds the same stored data,
\* and a token never issued yields 404.
C24_StoreOnlyGrows ==
    [][/\ \A t \in Issued :
              /\ t \in DOMAIN results_store'
              /\ results_store'[t] = results_store[t]
       /\ results_store' # results_store =>
              LET token == Len(results_store')
              IN  /\ DOMAIN results_store' = Issued \cup {token}
                  /\ token \notin Issued
                  /\ requests' = requests + 1
                  /\ ReachedScoring
                  /\ results_store'[token].scores =
                         CalculateScore(results_store'[token].business,
                                        results_store'[token].competitors,
                                        results_store'[token].top_competitor_name)
                  /\ response' = RedirectToResults(token)
       /\ TurnedBack => results_store' = results_store
       /\ response'.route = "results" =>
              IF response'.token \in DOMAIN results_store'
              THEN /\ response'.status = 200
                   /\ \A k \in DOMAIN response'.data :
                          response'.data[k] = results_store'[response'.token][k]
                   /\ DOMAIN response'.data =
                          DOMAIN results_store'[response'.token] \ {"pdf_bytes"}
              ELSE response'.status = 404
      ]_vars

\* after one stored result and one lookup error the store holds one entry,
\* and the results page of its token shows the stored data
C24_Witness ==
    /\ requests = 2
    /\ Len(results_store) = 1
    /\ log["Unexpected error fetching Places data"] = 1
    /\ response.route = "results"
    /\ response.token = 1
    /\ response.status = 200
    /\ response.data.scores = results_store[1].scores

\* ------------------------------------------------------------------------
\* Properties of the competitor filter as a selection
\* ------------------------------------------------------------------------
\* the number of candidates the taken branch selects from
SelectableCount ==
    IF Cardinality(WithinCap) >= 2
    THEN Cardinality(WithinCap)
    ELSE Len(candidates)

\* `selection` lists candidates at pairwise different positions
SelectsDistinctPositions(selection) ==
    \E at \in [1..Len(selection) -> 1..Len(candidates)] :
        /\ \A j \in 1..Len(selection) : selection[j] = candidates[at[j]]
        /\ \A j, k \in 1..Len(selection) : j # k => at[j] # at[k]

\* the step in which _filter_local_competitors returns
FilterStep == fpc = "call" /\ fpc' = "returned"

\* C22: the result of _filter_local_competitors has exactly min(want, n)
\* elements, n being the number of within-cap candidates when there are at
\* least two and the number of candidates otherwise; every element is a
\* candidate, no candidate position is returned twice, and the candidate list
\* is left as it was.
C22_BoundedSelection ==
    [][FilterStep =>
          /\ Len(filtered') = Min(want, SelectableCount)
          /\ SelectsDistinctPositions(filtered')
          /\ candidates' = candidates]_vars

\* two of three candidates are within the cap and three were wanted
C22_Witness ==
    /\ FilterReturned
    /\ Len(candidates) = 3
    /\ Cardinality(WithinCap) = 2
    /\ want = 3
    /\ Len(filtered) = 2

\* C23: in the fallback branch (fewer than two within-cap candidates, review
\* counts >= 0) a within-cap candidate comes before every candidate above the
\* cap, so for want >= 1 the single within-cap candidate is in the result.
C23_WithinCapFirstInFallback ==
    (/\ FilterReturned
     /\ Cardinality(WithinCap) = 1
     /\ \A i \in 1..Len(candidates) : candidates[i].review_count >= 0
     /\ want >= 1) =>
        /\ \A i \in WithinCap : filtered[1] = candidates[i]
        /\ \A i \in WithinCap, k \in (1..Len(candidates)) \ WithinCap :
               RankByDistance(i) < RankByDistance(k)

\* the only within-cap candidate came last in the input, far below own, and
\* one competitor was wanted
C23_Witness ==
    /\ FilterReturned
    /\ Len(candidates) = 3
    /\ WithinCap = {3}
    /\ want = 1
    /\ filtered = <<candidates[3]>>

\* ------------------------------------------------------------------------
\* Properties of the competitor search
\* ------------------------------------------------------------------------
\* a profile that is not the subject and shares a specific type with it
IsForeignSameIndustry(profile) ==
    /\ profile.place_id # subject.place_id
    /\ \E i \in 1..Len(profile.types), j \in 1..Len(subject.types) :
           /\ profile.types[i] = subject.types[j]
           /\ profile.types[i] \notin GENERIC_TYPES

\* C21: the subject is never among its own competitors: no profile returned
\* by get_competitors, and none in the competitors of build_full_report_data,
\* has the subject's place_id or lacks a shared non-generic type with it.
C21_SubjectNotOwnCompetitor ==
    (cpc = "returned") =>
        /\ \A i \in 1..Len(raw_competitors) :
               IsForeignSameIndustry(raw_competitors[i])
        /\ \A i \in 1..Len(report_competitors) :
               IsForeignSameIndustry(report_competitors[i])

\* the nearby search listed the subject itself first, then a competitor
C21_Witness ==
    /\ cpc = "returned"
    /\ Len(nearby.results) >= 2
    /\ nearby.results[1].place_id = subject.place_id
    /\ nearby.results[1].details_ok
    /\ Len(raw_competitors) >= 1
    /\ Len(report_competitors) >= 1

====
